---- MODULE Spec2Model ----
(***************************************************************************)
(* Model of scripts/assign_from_viber.py: the per-reference-code           *)
(* assignment loop of main() against the remote record gateway (Odoo       *)
(* XML-RPC), with its helpers pick_project_key, resolve_users,             *)
(* resolve_role and extract_codes.                                         *)
(*                                                                         *)
(* Encoding of Python values:                                              *)
(*   - a many2one field is <<>> when unset (False) and <<id, name>> else;  *)
(*   - an optional value (None or v) is <<>> or <<v>>;                     *)
(*   - a dict is a function; where the code depends on insertion order     *)
(*     the keys are kept in a sequence beside it;                          *)
(*   - a raised exception is a record with ok = FALSE.                     *)
(***************************************************************************)
EXTENDS Integers, Sequences, FiniteSets, TLC

\* ------------------------------------------------------------------ bounds
\* Number of whitespace-separated tokens of the pasted chat text.
MaxTokens == 2
\* The operator types integers in -MaxSel .. MaxSel at an index prompt.
MaxSel == 3

\* ---------------------------------------------------------------- strings
\* Code points of the strings that the program orders (display names and
\* reference codes); Python compares str values code point by code point.
CodePoints(s) ==
    CASE s = "Ann" -> <<65, 110, 110>>
      [] s = "Bob" -> <<66, 111, 98>>
      [] s = "amy" -> <<97, 109, 121>>
      [] s = "TSK-A-1" -> <<84, 83, 75, 45, 65, 45, 49>>
      [] s = "TSK-A-2" -> <<84, 83, 75, 45, 65, 45, 50>>
      [] s = "TSK-Z-9" -> <<84, 83, 75, 45, 90, 45, 57>>
      [] OTHER -> <<>>

RECURSIVE LexLt(_, _)
LexLt(s, t) ==
    IF t = <<>> THEN FALSE
    ELSE IF s = <<>> THEN TRUE
    ELSE IF s[1] < t[1] THEN TRUE
    ELSE IF s[1] > t[1] THEN FALSE
    ELSE LexLt(Tail(s), Tail(t))

\* a < b on Python str
StrLt(a, b) == LexLt(CodePoints(a), CodePoints(b))

Digit(d) ==
    CASE d = 0 -> "0" [] d = 1 -> "1" [] d = 2 -> "2" [] d = 3 -> "3"
      [] d = 4 -> "4" [] d = 5 -> "5" [] d = 6 -> "6" [] d = 7 -> "7"
      [] d = 8 -> "8" [] d = 9 -> "9"

\* str(n) for an int
RECURSIVE Str(_)
Str(n) ==
    IF n < 0 THEN "-" \o Str(-n)
    ELSE IF n < 10 THEN Digit(n)
    ELSE Str(n \div 10) \o Digit(n % 10)

\* int(s): the integer whose decimal form is s, or ValueError
ParseInt(s) ==
    IF \E n \in -MaxSel .. MaxSel : Str(n) = s
    THEN [ok |-> TRUE, val |-> CHOOSE n \in -MaxSel .. MaxSel : Str(n) = s]
    ELSE [ok |-> FALSE]

\* list[i] with Python's index rule: a negative i counts from the end,
\* anything outside -len .. len-1 raises IndexError
PyIndex(list, i) ==
    IF i >= 0
    THEN IF i < Len(list) THEN [ok |-> TRUE, val |-> list[i + 1]] ELSE [ok |-> FALSE]
    ELSE IF -i <= Len(list) THEN [ok |-> TRUE, val |-> list[Len(list) + i + 1]]
         ELSE [ok |-> FALSE]

\* list[int(sel) - 1] inside try/except Exception
SelectByAnswer(list, sel) ==
    LET n == ParseInt(sel) IN
    IF ~n.ok THEN [ok |-> FALSE] ELSE PyIndex(list, n.val - 1)

\* input(...).strip().lower() on the answers the operator gives
StripLower(s) ==
    CASE s = "Y " -> "y"
      [] s = " n" -> "n"
      [] OTHER -> s

Range(f) == {f[i] : i \in DOMAIN f}

\* SeqOfIds(S): the ids of S in ascending order (the order in which the
\* remote system returns records of a search)
RECURSIVE SeqOfIds(_)
SeqOfIds(S) ==
    IF S = {} THEN <<>>
    ELSE LET m == CHOOSE x \in S : \A y \in S : x <= y
         IN <<m>> \o SeqOfIds(S \ {m})

\* ---------------------------------------------------- the remote records
\* res.users
Users ==
    [i \in {1, 2, 3} |->
        CASE i = 1 -> [id |-> 1, name |-> "Bob", login |-> "bob", email |-> "bob@x.io"]
          [] i = 2 -> [id |-> 2, name |-> "Ann", login |-> "ann", email |-> "ann@x.io"]
          [] i = 3 -> [id |-> 3, name |-> "Ann", login |-> "rob", email |-> "rob@x.io"]]

\* project.task.type
Stages ==
    [i \in {1, 2, 3} |->
        CASE i = 1 -> [id |-> 1, name |-> "New", fold |-> FALSE]
          [] i = 2 -> [id |-> 2, name |-> "Done", fold |-> TRUE]
          [] i = 3 -> [id |-> 3, name |-> "Doing", fold |-> FALSE]]

Alpha == <<42, "Alpha">>
Beta == <<7, "Beta">>

\* project.task, without the assignee (the one field the program writes).
\* Tickets 1..3 carry the reference codes of the chat text, 4..8 are other
\* tickets of the projects.
Tasks ==
    [i \in 1 .. 8 |->
        CASE i = 1 -> [id |-> 1, name |-> "Fix login", code |-> "TSK-A-1", project_id |-> Alpha,
                       priority |-> "1", stage_id |-> 1, write_date |-> "2026-01-19 08:00:00"]
          [] i = 2 -> [id |-> 2, name |-> "Add export", code |-> "TSK-A-2", project_id |-> Alpha,
                       priority |-> "0", stage_id |-> 1, write_date |-> "2026-01-02 08:00:00"]
          [] i = 3 -> [id |-> 3, name |-> "Add export (copy)", code |-> "TSK-A-2", project_id |-> <<>>,
                       priority |-> "0", stage_id |-> 1, write_date |-> "2026-01-02 08:00:00"]
          [] i = 4 -> [id |-> 4, name |-> "w4", code |-> "TSK-W-4", project_id |-> Alpha,
                       priority |-> "0", stage_id |-> 1, write_date |-> "2026-01-19 08:00:00"]
          [] i = 5 -> [id |-> 5, name |-> "w5", code |-> "TSK-W-5", project_id |-> Alpha,
                       priority |-> "0", stage_id |-> 1, write_date |-> "19/01/2026"]
          [] i = 6 -> [id |-> 6, name |-> "w6", code |-> "TSK-W-6", project_id |-> Alpha,
                       priority |-> "0", stage_id |-> 1, write_date |-> "2026-01-02 08:00:00"]
          [] i = 7 -> [id |-> 7, name |-> "w7", code |-> "TSK-W-7", project_id |-> Alpha,
                       priority |-> "0", stage_id |-> 3, write_date |-> ""]
          [] i = 8 -> [id |-> 8, name |-> "w8", code |-> "TSK-W-8", project_id |-> Beta,
                       priority |-> "0", stage_id |-> 1, write_date |-> "2026-01-19 08:00:00"]]

\* The assignees of the tickets before the run.
InitialAssignee ==
    [i \in 1 .. 8 |->
        CASE i \in {4, 5, 8} -> <<1, "Bob">>
          [] i = 6 -> <<2, "Ann">>
          [] i = 7 -> <<3, "Ann">>
          [] OTHER -> <<>>]

\* ------------------------------------------------------------- timestamps
\* datetime.strptime(wdate, "%Y-%m-%d %H:%M:%S"): a naive datetime (to the
\* day, within January 2026) or ValueError
Strptime(wdate) ==
    CASE wdate = "2026-01-19 08:00:00" -> [ok |-> TRUE, day |-> 19, aware |-> FALSE]
      [] wdate = "2026-01-02 08:00:00" -> [ok |-> TRUE, day |-> 2, aware |-> FALSE]
      [] OTHER -> [ok |-> FALSE]

\* datetime.now(timezone.utc): an aware datetime
UtcNow == [ok |-> TRUE, day |-> 20, aware |-> TRUE]

\* dt - timedelta(days=n)
MinusDays(dt, n) == [dt EXCEPT !.day = @ - n]

\* a >= b on datetime: comparing a naive with an aware one raises TypeError
DtGe(a, b) ==
    IF a.aware # b.aware THEN [ok |-> FALSE] ELSE [ok |-> TRUE, val |-> a.day >= b.day]

\* ------------------------------------------------------------------ state
VARIABLES
    have_creds,     \* all([url, db, user, password])
    dry_run,        \* args.dry_run
    cfg,            \* the loaded configuration file
    db_stages,      \* ids of the stage records of the remote system
    db_tasks,       \* ids of the ticket records of the remote system
    task_user,      \* remote: ticket id -> assignee pair, <<>> when unassigned
    pc,             \* where main() stands
    exit_code,      \* -1 while running
    codes,          \* extract_codes(text)
    idx,            \* position of the for loop in codes (1-based)
    tasks, task, stage_id_list, open_tasks, counts, count_keys, recent,
    pref_key, preferred_ids, missing, candidate_ids, cand_records,
    candidates, top, yn, sel,   \* locals of main(), named as there
    calls,          \* history: the gateway calls and prompts made for codes[idx]
    writes,         \* history: every write call of the run
    outcomes        \* history: what was reported for each finished code

env == <<have_creds, dry_run, cfg, db_stages, db_tasks>>
locals == <<tasks, task, stage_id_list, open_tasks, counts, count_keys, recent,
            pref_key, preferred_ids, missing, candidate_ids, cand_records,
            candidates, top, yn, sel>>
vars == <<env, task_user, pc, exit_code, codes, idx, locals, calls, writes, outcomes>>

\* ---------------------------------------------------------- reference codes
\* CODE_RE on one token of the text
CodeMatch(tok) == tok \in {"TSK-A-1", "TSK-A-2", "TSK-Z-9"}

\* sorted(S) for a set of str
RECURSIVE SortedStrings(_)
SortedStrings(S) ==
    IF S = {} THEN <<>>
    ELSE LET m == CHOOSE x \in S : \A y \in S \ {x} : StrLt(x, y)
         IN <<m>> \o SortedStrings(S \ {m})

\* extract_codes(text), the text given as its sequence of tokens
extract_codes(text) == SortedStrings({t \in Range(text) : CodeMatch(t)})

\* -------------------------------------------------------------- the gateway
\* A ticket record as search_read returns it.
TaskRec(i) ==
    [id |-> i, name |-> Tasks[i].name, code |-> Tasks[i].code,
     project_id |-> Tasks[i].project_id, user_id |-> task_user[i],
     priority |-> Tasks[i].priority, stage_id |-> Tasks[i].stage_id,
     write_date |-> Tasks[i].write_date]

\* search_read("project.task", [("code", "=", code)], ...)
SearchTasksByCode(code) ==
    LET ids == SeqOfIds({i \in db_tasks : Tasks[i].code = code})
    IN [k \in DOMAIN ids |-> TaskRec(ids[k])]

\* search_read("project.task.type", [("name", "in", names)], ["id", "name"])
SearchStagesByName(names) ==
    SeqOfIds({i \in db_stages : Stages[i].name \in Range(names)})

SearchStagesFolded ==
    SeqOfIds({i \in db_stages : Stages[i].fold})

\* search_read("project.task.type", [("fold", "=", False)], ...)
SearchStagesUnfolded ==
    SeqOfIds({i \in db_stages : ~Stages[i].fold})

SearchOpenTasksStale(project_id, stage_ids) ==
    LET ids == SeqOfIds({i \in db_tasks :
                    /\ Tasks[i].project_id # <<>>
                    /\ Tasks[i].project_id[1] = project_id
                    /\ Tasks[i].stage_id \in Range(stage_ids)
                    /\ InitialAssignee[i] # <<>>})
    IN [k \in DOMAIN ids |->
            [id |-> ids[k], user_id |-> InitialAssignee[ids[k]],
             write_date |-> Tasks[ids[k]].write_date]]

\* search_read("project.task", [project_id =, stage_id in, user_id != False],
\*             ["id", "user_id", "write_date"])
SearchOpenTasks(project_id, stage_ids) ==
    LET ids == SeqOfIds({i \in db_tasks :
                    /\ Tasks[i].project_id # <<>>
                    /\ Tasks[i].project_id[1] = project_id
                    /\ Tasks[i].stage_id \in Range(stage_ids)
                    /\ task_user[i] # <<>>})
    IN [k \in DOMAIN ids |->
            [id |-> ids[k], user_id |-> task_user[ids[k]],
             write_date |-> Tasks[ids[k]].write_date]]

\* search_read("res.users", login = ident | email = ident | name = ident, limit=1)
SearchUser(ident) ==
    LET ids == SeqOfIds({i \in DOMAIN Users :
                    \/ Users[i].login = ident
                    \/ Users[i].email = ident
                    \/ Users[i].name = ident})
    IN IF ids = <<>> THEN <<>> ELSE <<Users[ids[1]]>>

\* The answers read("res.users", ids, ...) may give: the records of any of
\* the requested ids that the remote system still has, in any order.
RECURSIVE Perms(_)
Perms(S) ==
    IF S = {} THEN {<<>>}
    ELSE UNION {{<<x>> \o p : p \in Perms(S \ {x})} : x \in S}

ReadUsersAnswers(ids) ==
    UNION {Perms({Users[i] : i \in K}) : K \in SUBSET (Range(ids) \cap DOMAIN Users)}

\* ------------------------------------------------------- helpers of main()
\* bool(v) for an optional str: None and "" are falsy
TruthyStr(opt) == opt # <<>> /\ opt[1] # ""

\* bool(v) for an optional list: None and [] are falsy
TruthyList(opt) == opt # <<>> /\ opt[1] # <<>>

pick_project_key_IdFirst(preferred_map, project_id, project_name) ==
    LET pid == Str(project_id) IN
    IF pid \in DOMAIN preferred_map THEN <<pid>>
    ELSE IF project_name \in DOMAIN preferred_map THEN <<project_name>>
    ELSE IF "default" \in DOMAIN preferred_map THEN <<"default">>
    ELSE <<>>

pick_project_key(preferred_map, project_id, project_name) ==
    IF project_name \in DOMAIN preferred_map THEN <<project_name>>
    ELSE LET pid == Str(project_id) IN
         IF pid \in DOMAIN preferred_map THEN <<pid>>
         ELSE IF "default" \in DOMAIN preferred_map THEN <<"default">>
         ELSE <<>>

\* resolve_users: the dict resolved, as the sequence of its items in
\* insertion order; user is <<>> for None
RECURSIVE ResolveInto(_, _)
ResolveInto(identifiers, resolved) ==
    IF identifiers = <<>> THEN resolved
    ELSE LET ident == Head(identifiers)
             item == [ident |-> ident, user |-> SearchUser(ident)]
         IN IF \E k \in DOMAIN resolved : resolved[k].ident = ident
            THEN ResolveInto(Tail(identifiers),
                     [k \in DOMAIN resolved |->
                         IF resolved[k].ident = ident THEN item ELSE resolved[k]])
            ELSE ResolveInto(Tail(identifiers), Append(resolved, item))

resolve_users(identifiers) == ResolveInto(identifiers, <<>>)

\* [u["id"] for u in resolved.values() if u]
PreferredIds(resolved) ==
    LET hit == SelectSeq(resolved, LAMBDA r : r.user # <<>>)
    IN [k \in DOMAIN hit |-> hit[k].user[1].id]

\* [k for k, v in resolved.items() if v is None]
Missing(resolved) ==
    LET miss == SelectSeq(resolved, LAMBDA r : r.user = <<>>)
    IN [k \in DOMAIN miss |-> miss[k].ident]

resolve_role_LoginFirst(role_map, user_rec) ==
    IF DOMAIN role_map = {} THEN "-"
    ELSE LET keys == <<user_rec.login, user_rec.name, user_rec.email>>
             hits == SelectSeq(keys, LAMBDA k : k # "" /\ k \in DOMAIN role_map)
         IN IF hits = <<>> THEN "-" ELSE role_map[hits[1]]

resolve_role(role_map, user_rec) ==
    IF DOMAIN role_map = {} THEN "-"
    ELSE LET keys == <<user_rec.name, user_rec.login, user_rec.email>>
             hits == SelectSeq(keys, LAMBDA k : k # "" /\ k \in DOMAIN role_map)
         IN IF hits = <<>> THEN "-" ELSE role_map[hits[1]]

GetAlwaysDefault(d, key, default) == default

\* dict.get(key, default)
Get(d, key, default) == IF key \in DOMAIN d THEN d[key] ELSE default

\* d[key] = value
Put(d, key, value) ==
    [k \in DOMAIN d \cup {key} |-> IF k = key THEN value ELSE d[k]]

MarksRecentBlankTrue(wdate, cutoff) ==
    IF wdate = "" THEN TRUE
    ELSE LET dt == Strptime(wdate) IN
         IF ~dt.ok THEN TRUE
         ELSE LET ge == DtGe(dt, cutoff) IN
              IF ~ge.ok THEN FALSE ELSE ge.val

\* The write_date test of the workload loop: TRUE when recent[uid_val] is
\* set for the record. Every exception of the try block is swallowed.
MarksRecent(wdate, cutoff) ==
    IF wdate = "" THEN FALSE
    ELSE LET dt == Strptime(wdate) IN
         IF ~dt.ok THEN FALSE
         ELSE LET ge == DtGe(dt, cutoff) IN
              IF ~ge.ok THEN FALSE ELSE ge.val

\* The loop over open_tasks: counts, recent and the insertion order of the
\* keys of counts.
RECURSIVE Tally(_, _, _)
Tally(records, cutoff, acc) ==
    IF records = <<>> THEN acc
    ELSE LET t == Head(records)
             uid_pair == t.user_id
         IN IF uid_pair = <<>> THEN Tally(Tail(records), cutoff, acc)
            ELSE LET uid_val == uid_pair[1] IN
                 Tally(Tail(records), cutoff,
                    [counts |-> Put(acc.counts, uid_val, Get(acc.counts, uid_val, 0) + 1),
                     keys |-> IF uid_val \in DOMAIN acc.counts THEN acc.keys
                              ELSE Append(acc.keys, uid_val),
                     recent |-> IF MarksRecent(t.write_date, cutoff)
                                THEN Put(acc.recent, uid_val, TRUE)
                                ELSE acc.recent])

\* The candidate dict built for one user record.
Candidate(u, role_map, cnt, rec) ==
    [id |-> u.id, name |-> u.name, login |-> u.login, email |-> u.email,
     role |-> resolve_role(role_map, u),
     count |-> Get(cnt, u.id, 0),
     recent |-> Get(rec, u.id, FALSE)]

KeyLtCountOnly(a, b) == -a.count < -b.count

\* key(a) < key(b) for key = (-count, name)
KeyLt(a, b) ==
    \/ -a.count < -b.count
    \/ -a.count = -b.count /\ StrLt(a.name, b.name)

\* list.sort(key=...) is stable: an element goes after the elements that
\* came before it and whose key is not greater.
InsertStable(sorted, c) ==
    LET before == {k \in DOMAIN sorted : KeyLt(c, sorted[k])}
        at == IF before = {} THEN Len(sorted) + 1
              ELSE CHOOSE k \in before : \A j \in before : k <= j
    IN SubSeq(sorted, 1, at - 1) \o <<c>> \o SubSeq(sorted, at, Len(sorted))

RECURSIVE SortFrom(_, _)
SortFrom(list, sorted) ==
    IF list = <<>> THEN sorted
    ELSE SortFrom(Tail(list), InsertStable(sorted, Head(list)))

SortCandidates(list) == SortFrom(list, <<>>)

\* ---------------------------------------------------------- configurations
\* int(cfg.get("recent_days", 7))
RecentDaysDefault == 7

\* preferred_developers with all three kinds of key for project Alpha (42):
\* "bob" is the login of user 1, "ann@x.io" the email of user 2, "rob" the
\* login of user 3, and no user is known as "ghost".
FullPref ==
    [k \in {"Alpha", "42", "default"} |->
        CASE k = "Alpha" -> <<"bob", "ghost">>
          [] k = "42" -> <<"ann@x.io", "rob">>
          [] k = "default" -> <<"ghost">>]

PrefMaps == {[k \in K |-> FullPref[k]] : K \in SUBSET DOMAIN FullPref}

RoleMap ==
    [k \in {"Ann", "bob", "rob@x.io"} |->
        CASE k = "Ann" -> "backend" [] k = "bob" -> "frontend" [] k = "rob@x.io" -> "qa"]

Config(names, pref) ==
    [open_stage_names |-> names, preferred_developers |-> pref,
     developer_roles |-> RoleMap, recent_days |-> RecentDaysDefault]

\* The tickets of the remote system: those of the reference codes, and one
\* of four populations of other tickets.
TaskSets == {{1, 2, 3} \cup W : W \in {{}, {4, 5, 6, 8}, {4, 6, 7, 8}, {6, 7, 8}}}

\* Configurations and remote contents the run may start from.
Scenarios ==
    {[cfg |-> Config(n, p), stages |-> S, tasks |-> T] :
        n \in {<<>>, <<"New">>, <<"Backlog">>}, S \in {{1, 2, 3}, {2}},
        p \in PrefMaps, T \in TaskSets}

\* The chat text, as its tokens.
Tokens == {"TSK-A-1", "TSK-A-2", "TSK-Z-9", "hello"}
Texts == UNION {[1 .. n -> Tokens] : n \in 0 .. MaxTokens}

\* What the operator may type at the prompts.
YnAnswers == {"y", "Y ", "n", ""}
SelAnswers == {"", "x"} \cup {Str(n) : n \in -MaxSel .. MaxSel}

NoRec == [id |-> 0]

Init ==
    /\ have_creds \in BOOLEAN
    /\ dry_run \in BOOLEAN
    /\ \E s \in Scenarios :
          /\ cfg = s.cfg
          /\ db_stages = s.stages
          /\ db_tasks = s.tasks
    /\ task_user = InitialAssignee
    /\ pc = "start"
    /\ exit_code = -1
    /\ codes = <<>>
    /\ idx = 0
    /\ tasks = <<>> /\ task = NoRec /\ stage_id_list = <<>> /\ open_tasks = <<>>
    /\ counts = <<>> /\ count_keys = <<>> /\ recent = <<>>
    /\ pref_key = <<>> /\ preferred_ids = <<>> /\ missing = <<>>
    /\ candidate_ids = <<>> /\ cand_records = <<>> /\ candidates = <<>>
    /\ top = NoRec /\ yn = "" /\ sel = ""
    /\ calls = <<>>
    /\ writes = <<>>
    /\ outcomes = <<>>

\* ---------------------------------------------------------------- main()
\* sys.exit(1)
Exit1 == pc' = "exit" /\ exit_code' = 1

\* lines 116-124
CheckCreds ==
    /\ pc = "start"
    /\ IF ~have_creds THEN Exit1 ELSE pc' = "input" /\ UNCHANGED exit_code
    /\ UNCHANGED <<env, task_user, codes, idx, locals, calls, writes, outcomes>>

\* lines 126-135
ReadInput ==
    /\ pc = "input"
    /\ \E text \in Texts : codes' = extract_codes(text)
    /\ IF codes' = <<>> THEN Exit1 ELSE pc' = "login" /\ UNCHANGED exit_code
    /\ UNCHANGED <<env, task_user, idx, locals, calls, writes, outcomes>>

\* lines 137-144: authenticate, then read the logged-in user
Login ==
    /\ pc = "login"
    /\ \E uid_ok \in BOOLEAN :
          IF uid_ok
          THEN /\ pc' = "loop" /\ idx' = 1 /\ UNCHANGED exit_code
               /\ calls' = <<[op |-> "authenticate"], [op |-> "read", model |-> "res.users"]>>
          ELSE /\ Exit1 /\ UNCHANGED idx
               /\ calls' = <<[op |-> "authenticate"]>>
    /\ UNCHANGED <<env, task_user, codes, locals, writes, outcomes>>

\* print(...); continue: the code's outcome is reported and the loop moves on
Report(kind, name) ==
    /\ outcomes' = Append(outcomes, [code |-> codes[idx], kind |-> kind, name |-> name])
    /\ idx' = idx + 1
    /\ pc' = "loop"

Called(call) == calls' = Append(calls, call)

\* lines 151-176: the next code of the loop and its ticket lookup
Lookup ==
    /\ pc = "loop"
    /\ idx <= Len(codes)
    /\ tasks' = SearchTasksByCode(codes[idx])
    /\ calls' = <<[op |-> "search_read", model |-> "project.task"]>>
    /\ stage_id_list' = <<>> /\ open_tasks' = <<>>
    /\ counts' = <<>> /\ count_keys' = <<>> /\ recent' = <<>>
    /\ pref_key' = <<>> /\ preferred_ids' = <<>> /\ missing' = <<>>
    /\ candidate_ids' = <<>> /\ cand_records' = <<>> /\ candidates' = <<>>
    /\ top' = NoRec /\ yn' = "" /\ sel' = ""
    /\ IF tasks' = <<>>
       THEN Report("NOT_FOUND", "") /\ task' = NoRec
       ELSE IF Len(tasks') > 1
            THEN pc' = "select" /\ task' = NoRec /\ UNCHANGED <<idx, outcomes>>
            ELSE pc' = "project" /\ task' = tasks'[1] /\ UNCHANGED <<idx, outcomes>>
    /\ UNCHANGED <<env, task_user, exit_code, codes, writes>>

\* the for loop is exhausted: main() returns
Finish ==
    /\ pc = "loop"
    /\ idx > Len(codes)
    /\ pc' = "done"
    /\ exit_code' = 0
    /\ UNCHANGED <<env, task_user, codes, idx, locals, calls, writes, outcomes>>

\* lines 163-174: several tickets carry the code, the operator picks one
SelectTask ==
    /\ pc = "select"
    /\ \E answer \in SelAnswers :
          /\ sel' = answer
          /\ LET picked == SelectByAnswer(tasks, answer) IN
             IF picked.ok
             THEN task' = picked.val /\ pc' = "project" /\ UNCHANGED <<idx, outcomes>>
             ELSE Report("INVALID_SELECTION", "") /\ UNCHANGED task
    /\ Called([op |-> "input", prompt |-> "task"])
    /\ UNCHANGED <<env, task_user, exit_code, codes, tasks, stage_id_list, open_tasks,
                   counts, count_keys, recent, pref_key, preferred_ids, missing,
                   candidate_ids, cand_records, candidates, top, yn, writes>>

\* lines 178-182
ProjectCheck ==
    /\ pc = "project"
    /\ IF task.project_id = <<>>
       THEN Report("NO_PROJECT", "")
       ELSE pc' = "stages" /\ UNCHANGED <<idx, outcomes>>
    /\ UNCHANGED <<env, task_user, exit_code, codes, locals, calls, writes>>

ResolveStagesNoFallback ==
    /\ pc = "stages"
    /\ IF cfg.open_stage_names # <<>>
       THEN /\ stage_id_list' = SearchStagesByName(cfg.open_stage_names)
            /\ Called([op |-> "search_read", model |-> "project.task.type"])
       ELSE /\ stage_id_list' = <<>>
            /\ UNCHANGED calls
    /\ pc' = "workload"
    /\ UNCHANGED <<env, task_user, exit_code, codes, idx, tasks, task, open_tasks,
                   counts, count_keys, recent, pref_key, preferred_ids, missing,
                   candidate_ids, cand_records, candidates, top, yn, sel, writes, outcomes>>

\* lines 188-196
ResolveStages ==
    /\ pc = "stages"
    /\ IF cfg.open_stage_names # <<>>
       THEN /\ stage_id_list' = SearchStagesByName(cfg.open_stage_names)
            /\ Called([op |-> "search_read", model |-> "project.task.type"])
       ELSE /\ stage_id_list' = <<>>
            /\ UNCHANGED calls
    /\ pc' = IF stage_id_list' # <<>> THEN "workload" ELSE "fallback"
    /\ UNCHANGED <<env, task_user, exit_code, codes, idx, tasks, task, open_tasks,
                   counts, count_keys, recent, pref_key, preferred_ids, missing,
                   candidate_ids, cand_records, candidates, top, yn, sel, writes, outcomes>>

\* lines 197-208
FallbackStages ==
    /\ pc = "fallback"
    /\ stage_id_list' = SearchStagesUnfolded
    /\ Called([op |-> "search_read", model |-> "project.task.type"])
    /\ IF stage_id_list' = <<>>
       THEN Report("NO_STAGES", "")
       ELSE pc' = "workload" /\ UNCHANGED <<idx, outcomes>>
    /\ UNCHANGED <<env, task_user, exit_code, codes, tasks, task, open_tasks,
                   counts, count_keys, recent, pref_key, preferred_ids, missing,
                   candidate_ids, cand_records, candidates, top, yn, sel, writes>>

\* lines 210-234
Workload ==
    /\ pc = "workload"
    /\ open_tasks' = SearchOpenTasks(task.project_id[1], stage_id_list)
    /\ Called([op |-> "search_read", model |-> "project.task"])
    /\ LET cutoff == MinusDays(UtcNow, cfg.recent_days)
           tally == Tally(open_tasks', cutoff, [counts |-> <<>>, keys |-> <<>>, recent |-> <<>>])
       IN /\ counts' = tally.counts
          /\ count_keys' = tally.keys
          /\ recent' = tally.recent
    /\ pc' = "prefs"
    /\ UNCHANGED <<env, task_user, exit_code, codes, idx, tasks, task, stage_id_list,
                   pref_key, preferred_ids, missing, candidate_ids, cand_records,
                   candidates, top, yn, sel, writes, outcomes>>

CandidateIdsNoFallback(preferred, keys) == IF preferred # <<>> THEN preferred[1] ELSE <<>>

\* line 247
CandidateIds(preferred, keys) == IF TruthyList(preferred) THEN preferred[1] ELSE keys

\* lines 236-250
Preferred ==
    /\ pc = "prefs"
    /\ pref_key' = pick_project_key(cfg.preferred_developers, task.project_id[1], task.project_id[2])
    /\ IF TruthyStr(pref_key')
       THEN LET identifiers == cfg.preferred_developers[pref_key'[1]]
                resolved == resolve_users(identifiers)
            IN /\ preferred_ids' = <<PreferredIds(resolved)>>
               /\ missing' = Missing(resolved)
               /\ calls' = calls \o [k \in DOMAIN identifiers |->
                                        [op |-> "search_read", model |-> "res.users"]]
       ELSE /\ preferred_ids' = <<>>
            /\ missing' = <<>>
            /\ UNCHANGED calls
    /\ candidate_ids' = CandidateIds(preferred_ids', count_keys)
    /\ IF candidate_ids' = <<>>
       THEN Report("NO_CANDIDATES", "")
       ELSE pc' = "read" /\ UNCHANGED <<idx, outcomes>>
    /\ UNCHANGED <<env, task_user, exit_code, codes, tasks, task, stage_id_list, open_tasks,
                   counts, count_keys, recent, cand_records, candidates, top, yn, sel, writes>>

BuildCandidatesDropZero(records) ==
    LET kept == SelectSeq(records, LAMBDA u : u.id \in DOMAIN counts)
    IN [k \in DOMAIN kept |-> Candidate(kept[k], cfg.developer_roles, counts, recent)]

\* lines 254-265
BuildCandidates(records) ==
    [k \in DOMAIN records |-> Candidate(records[k], cfg.developer_roles, counts, recent)]

\* lines 252-277; candidates[0] of an empty list is an uncaught IndexError
ReadCandidates ==
    /\ pc = "read"
    /\ \E answer \in ReadUsersAnswers(candidate_ids) :
          /\ cand_records' = answer
          /\ candidates' = SortCandidates(BuildCandidates(answer))
    /\ Called([op |-> "read", model |-> "res.users"])
    /\ IF candidates' = <<>>
       THEN pc' = "crashed" /\ exit_code' = 1 /\ UNCHANGED top
       ELSE pc' = "confirm" /\ top' = candidates'[1] /\ UNCHANGED exit_code
    /\ UNCHANGED <<env, task_user, codes, idx, tasks, task, stage_id_list, open_tasks,
                   counts, count_keys, recent, pref_key, preferred_ids, missing,
                   candidate_ids, yn, sel, writes, outcomes>>

\* lines 278-279
Confirm ==
    /\ pc = "confirm"
    /\ \E answer \in YnAnswers : yn' = StripLower(answer)
    /\ Called([op |-> "input", prompt |-> "confirm"])
    /\ pc' = IF yn' # "y" THEN "index" ELSE "commit"
    /\ UNCHANGED <<env, task_user, exit_code, codes, idx, tasks, task, stage_id_list,
                   open_tasks, counts, count_keys, recent, pref_key, preferred_ids, missing,
                   candidate_ids, cand_records, candidates, top, sel, writes, outcomes>>

\* lines 280-288
IndexPrompt ==
    /\ pc = "index"
    /\ \E answer \in SelAnswers :
          /\ sel' = answer
          /\ IF answer = ""
             THEN Report("SKIPPED", "") /\ UNCHANGED top
             ELSE LET picked == SelectByAnswer(candidates, answer) IN
                  IF picked.ok
                  THEN top' = picked.val /\ pc' = "commit" /\ UNCHANGED <<idx, outcomes>>
                  ELSE Report("INVALID_SELECTION", "") /\ UNCHANGED top
    /\ Called([op |-> "input", prompt |-> "index"])
    /\ UNCHANGED <<env, task_user, exit_code, codes, tasks, task, stage_id_list,
                   open_tasks, counts, count_keys, recent, pref_key, preferred_ids, missing,
                   candidate_ids, cand_records, candidates, yn, writes>>

SkipsWriteNever(dry) == FALSE

\* line 290
SkipsWrite(dry) == dry

WriteIdsAllFound(t) == [k \in DOMAIN tasks |-> tasks[k].id]

\* line 294: the ids and the values of the write
WriteIds(t) == <<t.id>>
WriteValues(c) == [user_id |-> c.id]

\* lines 290-298; a write the remote system accepts changes the fields of
\* the records it names
Commit ==
    /\ pc = "commit"
    /\ IF SkipsWrite(dry_run)
       THEN /\ Report("DRY_RUN_REPORTED", top.name)
            /\ UNCHANGED <<task_user, calls, writes>>
       ELSE \E ok \in BOOLEAN :
            LET call == [op |-> "write", model |-> "project.task", code |-> codes[idx],
                         ids |-> WriteIds(task), values |-> WriteValues(top), ok |-> ok]
            IN /\ Called(call)
               /\ writes' = Append(writes, call)
               /\ task_user' = IF ok
                               THEN [i \in DOMAIN task_user |->
                                        IF i \in Range(call.ids) /\ "user_id" \in DOMAIN call.values
                                        THEN <<call.values.user_id, Users[call.values.user_id].name>>
                                        ELSE task_user[i]]
                               ELSE task_user
               /\ IF ok THEN Report("WRITE_OK", top.name) ELSE Report("WRITE_FAILED", "")
    /\ UNCHANGED <<env, exit_code, codes, locals>>

Next ==
    \/ CheckCreds
    \/ ReadInput
    \/ Login
    \/ Lookup
    \/ Finish
    \/ SelectTask
    \/ ProjectCheck
    \/ ResolveStages
    \/ FallbackStages
    \/ Workload
    \/ Preferred
    \/ ReadCandidates
    \/ Confirm
    \/ IndexPrompt
    \/ Commit

Spec == Init /\ [][Next]_vars

\* --------------------------------------------------- roles of candidates
\* resolve_role over role policies and user records: its own specification,
\* with the policy and the records drawn from the sets below.
RoleKeys == {"Ann", "ann", "bob", "rob@x.io", ""}
RoleLabels == {"backend", "qa"}

\* cfg.get("developer_roles", {}): the empty policy and the policies over
\* the keys
RoleMaps == UNION {[K -> RoleLabels] : K \in SUBSET RoleKeys}

\* The user records a read may return: those of res.users and one whose
\* login and email are empty.
RoleUsers ==
    Range(Users) \cup {[id |-> 4, name |-> "Zed", login |-> "", email |-> ""]}

RoleReads ==
    {<<u>> : u \in RoleUsers} \cup
    {<<p[1], p[2]>> : p \in {q \in RoleUsers \X RoleUsers : q[1] # q[2]}}

InitRole ==
    /\ have_creds = TRUE
    /\ dry_run = TRUE
    /\ \E m \in RoleMaps :
          cfg = [Config(<<>>, <<>>) EXCEPT !.developer_roles = m]
    /\ db_stages = {1, 2, 3}
    /\ db_tasks = {1, 2, 3}
    /\ task_user = InitialAssignee
    /\ pc = "role_read"
    /\ exit_code = -1
    /\ codes = <<>>
    /\ idx = 0
    /\ tasks = <<>> /\ task = NoRec /\ stage_id_list = <<>> /\ open_tasks = <<>>
    /\ counts = <<>> /\ count_keys = <<>> /\ recent = <<>>
    /\ pref_key = <<>> /\ preferred_ids = <<>> /\ missing = <<>>
    /\ candidate_ids = <<>> /\ cand_records = <<>> /\ candidates = <<>>
    /\ top = NoRec /\ yn = "" /\ sel = ""
    /\ calls = <<>>
    /\ writes = <<>>
    /\ outcomes = <<>>

\* line 253: the records of the candidates
RoleRead ==
    /\ pc = "role_read"
    /\ cand_records' \in RoleReads
    /\ pc' = "role_build"
    /\ UNCHANGED <<env, task_user, exit_code, codes, idx, tasks, task, stage_id_list,
                   open_tasks, counts, count_keys, recent, pref_key, preferred_ids,
                   missing, candidate_ids, candidates, top, yn, sel, calls, writes,
                   outcomes>>

\* lines 254-265: one candidate per record, its role from resolve_role
RoleBuild ==
    /\ pc = "role_build"
    /\ candidates' = BuildCandidates(cand_records)
    /\ pc' = "role_done"
    /\ UNCHANGED <<env, task_user, exit_code, codes, idx, tasks, task, stage_id_list,
                   open_tasks, counts, count_keys, recent, pref_key, preferred_ids,
                   missing, candidate_ids, cand_records, top, yn, sel, calls, writes,
                   outcomes>>

NextRole ==
    \/ RoleRead
    \/ RoleBuild

SpecRole == InitRole /\ [][NextRole]_vars

\* ------------------------------------------------------------- properties
\* A code has just been reported: until the next Lookup the locals are still
\* those of that code.
TicketFinished == pc \in {"loop", "done"} /\ outcomes # <<>>

LastOutcome == outcomes[Len(outcomes)]

\* The prompts answered for the current code.
Asked(prompt) ==
    \E k \in DOMAIN calls : calls[k].op = "input" /\ calls[k].prompt = prompt

\* The finished code's decision resolved to a candidate (top): the operator
\* confirmed, or the index prompt picked an element of the ranked list.
DecisionResolved ==
    /\ TicketFinished
    /\ Asked("confirm")
    /\ \/ yn = "y"
       \/ sel # "" /\ SelectByAnswer(candidates, sel).ok

WritesFor(code) == SelectSeq(writes, LAMBDA w : w.code = code)

\* C1: in dry-run mode no gateway write is ever issued (the write log stays
\* empty, no call of the current code is a write, no ticket's assignee
\* changes), and a code whose decision resolved to a candidate is reported
\* as DRY_RUN_REPORTED with that candidate's name.
C1_DryRunNeverWrites ==
    dry_run =>
        /\ writes = <<>>
        /\ \A k \in DOMAIN calls : calls[k].op # "write"
        /\ task_user = InitialAssignee
        /\ DecisionResolved =>
              /\ LastOutcome.kind = "DRY_RUN_REPORTED"
              /\ LastOutcome.name = top.name
              /\ \E k \in DOMAIN candidates : candidates[k] = top

C1_Witness ==
    /\ dry_run
    /\ DecisionResolved
    /\ yn # "y"
    /\ LastOutcome.kind = "DRY_RUN_REPORTED"
    /\ Len(outcomes) = 2

\* C2: without dry-run, every write of the run is an assignment of one
\* ticket carrying the code being processed, setting only user_id, and no
\* code has two writes; a code whose decision resolved has exactly one write,
\* of the selected ticket to the chosen candidate's id, and any other
\* finished code has none. The gateway is asked for nothing but
\* authenticate, search_read, read and write, and the assignee of a ticket
\* changes only by such a write.
C2_SingleAssignmentWrite ==
    ~dry_run =>
        /\ \A k \in DOMAIN writes :
              /\ writes[k].op = "write" /\ writes[k].model = "project.task"
              /\ Len(writes[k].ids) = 1
              /\ writes[k].ids[1] \in db_tasks
              /\ Tasks[writes[k].ids[1]].code = writes[k].code
              /\ DOMAIN writes[k].values = {"user_id"}
              /\ \A j \in DOMAIN writes : writes[j].code = writes[k].code => j = k
        /\ \A k \in DOMAIN calls :
              calls[k].op \in {"authenticate", "search_read", "read", "write", "input"}
        /\ \A i \in DOMAIN task_user :
              task_user[i] # InitialAssignee[i] =>
                 \E k \in DOMAIN writes :
                    writes[k].ids = <<i>> /\ writes[k].values.user_id = task_user[i][1]
        /\ TicketFinished =>
              LET mine == WritesFor(LastOutcome.code) IN
              IF DecisionResolved
              THEN /\ Len(mine) = 1
                   /\ mine[1].ids = <<task.id>>
                   /\ task \in Range(tasks)
                   /\ mine[1].values = [user_id |-> top.id]
              ELSE mine = <<>>

C2_Witness ==
    /\ ~dry_run
    /\ DecisionResolved
    /\ Len(tasks) > 1
    /\ Len(writes) = 2
    /\ writes[2].ok
    /\ task_user[2] = <<3, "Ann">>

\* The answer is the decimal form of an integer in 1 .. n.
ValidIndex(answer, n) == \E i \in 1 .. n : Str(i) = answer

\* The finished code ended in a write or in a dry-run report.
Committed ==
    /\ TicketFinished
    /\ LastOutcome.kind \in {"DRY_RUN_REPORTED", "WRITE_OK", "WRITE_FAILED"}

\* C3: a write or a dry-run report happens only after the operator answered
\* "y", the assignee then being the first element of the ranked list, or
\* declined and entered a 1-based index i of the ranked list, the assignee
\* then being its i-th element; declining and answering blank ends the code
\* as SKIPPED without a write.
C3_OnlyConfirmedOrIndexed ==
    /\ Committed =>
          /\ Asked("confirm")
          /\ \/ yn = "y" /\ top = candidates[1]
             \/ /\ yn # "y"
                /\ Asked("index")
                /\ \E i \in 1 .. Len(candidates) : Str(i) = sel /\ top = candidates[i]
    /\ (TicketFinished /\ Asked("index") /\ sel = "") =>
          /\ LastOutcome.kind = "SKIPPED"
          /\ WritesFor(LastOutcome.code) = <<>>

\* C4: at either index prompt an answer that is not an integer in 1..N
\* selects nothing: the ticket prompt does not go on to the project check
\* and the candidate prompt does not go on to the commit, the code is
\* finished without a write and the loop goes on.
C4_InvalidAnswerSelectsNothing ==
    /\ (pc = "project" /\ Asked("task")) => ValidIndex(sel, Len(tasks))
    /\ (pc = "commit" /\ Asked("index")) => ValidIndex(sel, Len(candidates))
    /\ (TicketFinished /\ Asked("index") /\ ~ValidIndex(sel, Len(candidates))) =>
          /\ LastOutcome.kind \in {"SKIPPED", "INVALID_SELECTION"}
          /\ WritesFor(LastOutcome.code) = <<>>

\* The preference entry that applies to a project, by the precedence name,
\* stringified id, fallback key; <<>> when none does.
MatchingKeys(preferred_map, project) ==
    SelectSeq(<<project[2], Str(project[1]), "default">>,
              LAMBDA k : k \in DOMAIN preferred_map)

\* The user ids the identifiers resolve to.
ResolvedIdSet(identifiers) ==
    {SearchUser(identifiers[k])[1].id :
        k \in {j \in DOMAIN identifiers : SearchUser(identifiers[j]) # <<>>}}

\* The Preferred step has run for the current (or just finished) code.
CandidatesChosen ==
    \/ pc \in {"read", "confirm", "index", "commit", "crashed"}
    \/ TicketFinished /\ LastOutcome.kind = "NO_CANDIDATES"
    \/ TicketFinished /\ Asked("confirm")

\* C5: under a preference entry matching the ticket's project the candidate
\* set is exactly the set of user ids its identifiers resolve to, whatever
\* resolves; developers known only from the workload are no candidates.
C5_PreferredSetExact ==
    CandidatesChosen =>
        LET keys == MatchingKeys(cfg.preferred_developers, task.project_id) IN
        keys # <<>> =>
            Range(candidate_ids) = ResolvedIdSet(cfg.preferred_developers[keys[1]])

\* C6: when no preference entry matches the ticket's project the candidate
\* set is exactly the key set of the workload count map; when that is empty
\* the code ends as NO_CANDIDATES with no candidate read, no prompt and no
\* write issued for it, and the loop goes on.
C6_WorkloadCandidates ==
    (CandidatesChosen /\ MatchingKeys(cfg.preferred_developers, task.project_id) = <<>>) =>
        /\ Range(candidate_ids) = DOMAIN counts
        /\ DOMAIN counts = {} =>
              /\ TicketFinished
              /\ LastOutcome.kind = "NO_CANDIDATES"
              /\ \A k \in DOMAIN calls :
                    /\ calls[k].op \notin {"read", "write"}
                    /\ calls[k].op = "input" => calls[k].prompt = "task"
              /\ WritesFor(LastOutcome.code) = <<>>

C6_Witness ==
    /\ TicketFinished
    /\ Len(outcomes) = 2
    /\ outcomes[1].kind = "NO_CANDIDATES"
    /\ outcomes[2].kind = "NO_CANDIDATES"
    /\ Asked("task")
    /\ counts = <<>>
    /\ MatchingKeys(cfg.preferred_developers, task.project_id) = <<>>

\* The workload of the current (or just finished) code has been tallied.
WorkloadDone ==
    \/ pc = "prefs"
    \/ CandidatesChosen

\* The timestamp parses and lies within the trailing window of recent_days
\* days before the current instant.
WithinWindow(wdate) ==
    LET dt == Strptime(wdate) IN
    dt.ok /\ dt.day >= UtcNow.day - cfg.recent_days

\* C7: a developer's recent flag is true exactly when one of the
\* developer's open tickets returned by the workload query was last written
\* within the window.
C7_RecentIffWithinWindow ==
    WorkloadDone =>
        \A dev \in DOMAIN counts :
            Get(recent, dev, FALSE) <=>
                \E k \in DOMAIN open_tasks :
                    /\ open_tasks[k].user_id[1] = dev
                    /\ WithinWindow(open_tasks[k].write_date)

\* The candidates of the current (or just finished) code have been ranked.
Ranked ==
    \/ pc \in {"confirm", "index", "commit"}
    \/ TicketFinished /\ Asked("confirm")

\* C8: the ranked list holds the candidates built from the returned records,
\* by descending count and, among equal counts, ascending display name; the
\* suggestion put to the operator is its first element.
C8_RankedOrder ==
    Ranked =>
        /\ \A i, j \in DOMAIN candidates :
              i < j =>
                 \/ candidates[i].count > candidates[j].count
                 \/ /\ candidates[i].count = candidates[j].count
                    /\ ~StrLt(candidates[j].name, candidates[i].name)
        /\ Len(candidates) = Len(cand_records)
        /\ \A r \in DOMAIN cand_records : \E k \in DOMAIN candidates :
              candidates[k].id = cand_records[r].id
        /\ pc = "confirm" => top = candidates[1]

C8_Witness ==
    /\ pc = "confirm"
    /\ Len(candidates) = 3
    /\ candidates[1].count = candidates[3].count
    /\ cand_records[1].name = "Bob"
    /\ candidates[3].name = "Bob"
    /\ top.name = "Ann"

\* C9: every ranked candidate carries the count of its id in the workload
\* count map, 0 when absent, and the recent flag of its id, false when
\* absent; every returned record is in the ranked list, so a preferred
\* developer without open tickets is listed with count 0.
C9_Enrichment ==
    Ranked =>
        /\ \A k \in DOMAIN candidates :
              /\ candidates[k].count =
                    IF candidates[k].id \in DOMAIN counts THEN counts[candidates[k].id] ELSE 0
              /\ candidates[k].recent =
                    IF candidates[k].id \in DOMAIN recent THEN recent[candidates[k].id] ELSE FALSE
        /\ Len(candidates) = Len(cand_records)
        /\ \A r \in DOMAIN cand_records : \E k \in DOMAIN candidates :
              /\ candidates[k].id = cand_records[r].id
              /\ cand_records[r].id \notin DOMAIN counts => candidates[k].count = 0

C9_Witness ==
    /\ pc = "confirm"
    /\ TruthyStr(pref_key)
    /\ \E k \in DOMAIN candidates :
          candidates[k].id \notin DOMAIN counts /\ candidates[k].count = 0
    /\ \E k \in DOMAIN candidates : candidates[k].count > 0

\* The key under which a project id is looked up.
ProjectIdKey(project_id) ==
    CASE project_id = 42 -> "42" [] project_id = 7 -> "7"

\* C10: the preference entry applied to a ticket is the one keyed by the
\* project's name if there is one, else the one keyed by the project id in
\* decimal if there is one, else the "default" entry if there is one, else
\* none; never more than one, and the identifiers looked up are that
\* entry's.
C10_PreferencePrecedence ==
    CandidatesChosen =>
        LET m == cfg.preferred_developers
            name == task.project_id[2]
            idkey == ProjectIdKey(task.project_id[1])
        IN /\ Len(pref_key) <= 1
           /\ name \in DOMAIN m => pref_key = <<name>>
           /\ (name \notin DOMAIN m /\ idkey \in DOMAIN m) => pref_key = <<idkey>>
           /\ (name \notin DOMAIN m /\ idkey \notin DOMAIN m /\ "default" \in DOMAIN m) =>
                 pref_key = <<"default">>
           /\ (name \notin DOMAIN m /\ idkey \notin DOMAIN m /\ "default" \notin DOMAIN m) =>
                 pref_key = <<>> /\ preferred_ids = <<>>
           /\ pref_key # <<>> =>
                 /\ pref_key[1] \in DOMAIN m
                 /\ Range(missing) =
                       {i \in Range(m[pref_key[1]]) : SearchUser(i) = <<>>}
                 /\ Range(preferred_ids[1]) =
                       {SearchUser(i)[1].id :
                           i \in {x \in Range(m[pref_key[1]]) : SearchUser(x) # <<>>}}

C10_Witness ==
    /\ pc = "read"
    /\ DOMAIN cfg.preferred_developers = {"Alpha", "42", "default"}
    /\ pref_key = <<"Alpha">>
    /\ candidate_ids = <<1>>
    /\ missing = <<"ghost">>

\* The open stages of the current (or just finished) code have been resolved.
StagesResolved ==
    \/ pc = "workload"
    \/ WorkloadDone
    \/ TicketFinished /\ LastOutcome.kind = "NO_STAGES"

\* The search_read calls on a model among the calls of the current code.
SearchesOf(model) ==
    {k \in DOMAIN calls : calls[k].op = "search_read" /\ calls[k].model = model}

\* C11: the open stage ids are those of the configured names when at least
\* one stage carries such a name, and otherwise (no name configured, or none
\* resolving) those of the stages that are not folded; when there is no such
\* stage either the code ends as NO_STAGES with no workload query and no
\* write, and the loop goes on.
C11_OpenStageResolution ==
    StagesResolved =>
        LET named == {i \in db_stages :
                        \E k \in DOMAIN cfg.open_stage_names :
                            cfg.open_stage_names[k] = Stages[i].name}
            unfolded == {i \in db_stages : Stages[i].fold = FALSE}
        IN /\ named # {} => Range(stage_id_list) = named
           /\ named = {} => Range(stage_id_list) = unfolded
           /\ (named = {} /\ unfolded = {}) =>
                 /\ TicketFinished
                 /\ LastOutcome.kind = "NO_STAGES"
                 /\ Cardinality(SearchesOf("project.task")) = 1
                 /\ \A k \in DOMAIN calls : calls[k].op \notin {"read", "write"}
                 /\ WritesFor(LastOutcome.code) = <<>>
           /\ (named # {} \/ unfolded # {}) =>
                 ~(TicketFinished /\ LastOutcome.kind = "NO_STAGES")

C11_Witness ==
    /\ TicketFinished
    /\ Len(outcomes) = 2
    /\ outcomes[1].kind = "NO_STAGES"
    /\ outcomes[2].kind = "NO_STAGES"
    /\ cfg.open_stage_names = <<"Backlog">>
    /\ Cardinality(SearchesOf("project.task.type")) = 2

\* The outcomes a code can be reported with.
TerminalKinds ==
    {"NOT_FOUND", "NO_PROJECT", "NO_STAGES", "NO_CANDIDATES", "SKIPPED",
     "INVALID_SELECTION", "DRY_RUN_REPORTED", "WRITE_OK", "WRITE_FAILED"}

\* main() has entered the loop over the codes.
InLoop == pc \notin {"start", "input", "login", "exit"}

\* C12: the codes are reported in order, each with exactly one terminal
\* outcome, and the loop is always at the code after the last reported one;
\* a failed write is reported and the loop goes on; when the run has ended,
\* every extracted code has its outcome.
C12_EveryCodeOneOutcome ==
    InLoop =>
        /\ Len(outcomes) <= Len(codes)
        /\ \A k \in DOMAIN outcomes :
              outcomes[k].code = codes[k] /\ outcomes[k].kind \in TerminalKinds
        /\ Len(outcomes) = idx - 1
        /\ (TicketFinished /\ LastOutcome.kind = "WRITE_FAILED") =>
              /\ exit_code \in {-1, 0}
              /\ Len(WritesFor(LastOutcome.code)) = 1
              /\ ~WritesFor(LastOutcome.code)[1].ok
        /\ exit_code # -1 => Len(outcomes) = Len(codes)

\* The login was attempted and failed.
LoginFailed == pc = "exit" /\ calls = <<[op |-> "authenticate"]>>

\* C13: the run exits with 1 exactly when the credentials are missing, no
\* code is extracted or the login fails, and with 0 otherwise, whatever the
\* outcomes of the codes; without credentials or codes no login is
\* attempted, and after a failed login nothing else is asked of the gateway.
C13_ExitCodes ==
    exit_code # -1 =>
        /\ exit_code \in {0, 1}
        /\ exit_code = 1 <=> (~have_creds \/ codes = <<>> \/ LoginFailed)
        /\ (~have_creds \/ codes = <<>>) => calls = <<>>
        /\ LoginFailed => outcomes = <<>> /\ writes = <<>>

\* C14: the ranked list is non-empty whenever it is put to the operator or a
\* write (or dry-run report) is made from it, and a code whose candidate
\* list is empty, also because the read of the candidate ids returned no
\* record, ends as NO_CANDIDATES.
C14_NeverEmptyRanked ==
    /\ (pc \in {"confirm", "index", "commit"} \/ Committed) => candidates # <<>>
    /\ (CandidatesChosen /\ pc # "read" /\ candidates = <<>>) =>
          /\ TicketFinished
          /\ LastOutcome.kind = "NO_CANDIDATES"

\* C15: the ranked list depends only on the set of returned records and on
\* the workload maps: ranking the same records in any other order gives the
\* list that was ranked.
C15_OrderIndependentRanking ==
    Ranked =>
        \A other \in Perms(Range(cand_records)) :
            SortCandidates(BuildCandidates(other)) = candidates

\* calls[k] is the given kind of call.
IsSearch(k, model) == calls[k].op = "search_read" /\ calls[k].model = model
IsPrompt(k, prompt) == calls[k].op = "input" /\ calls[k].prompt = prompt

\* C16: a write is the last call made for its code and comes after, in this
\* order, the ticket lookup (which found a ticket with a project), a stage
\* query (which left a non-empty open stage list), the workload query, the
\* read of the candidates (ranked into a non-empty list) and the
\* confirmation prompt (the decision having resolved to an element of the
\* list); a ticket without a project ends as NO_PROJECT after the lookup
\* and at most the ticket prompt, with no other call.
C16_WriteAfterPipeline ==
    /\ \A w \in DOMAIN calls :
          calls[w].op = "write" =>
             /\ w = Len(calls)
             /\ \E b, c, d, e \in DOMAIN calls :
                   /\ 1 < b /\ b < c /\ c < d /\ d < e /\ e < w
                   /\ IsSearch(1, "project.task")
                   /\ IsSearch(b, "project.task.type")
                   /\ IsSearch(c, "project.task")
                   /\ calls[d].op = "read" /\ calls[d].model = "res.users"
                   /\ IsPrompt(e, "confirm")
             /\ task \in Range(tasks)
             /\ task.project_id # <<>>
             /\ stage_id_list # <<>>
             /\ candidates # <<>>
             /\ top \in Range(candidates)
             /\ yn = "y" \/ (IsPrompt(w - 1, "index") /\ SelectByAnswer(candidates, sel).ok)
    /\ (TicketFinished /\ LastOutcome.kind = "NO_PROJECT") =>
          /\ IsSearch(1, "project.task")
          /\ \A k \in DOMAIN calls : k > 1 => IsPrompt(k, "task")
          /\ WritesFor(LastOutcome.code) = <<>>

C16_Witness ==
    /\ TicketFinished
    /\ Len(outcomes) = 2
    /\ outcomes[1].kind = "WRITE_FAILED"
    /\ outcomes[2].kind = "WRITE_OK"
    /\ Asked("task") /\ Asked("index")
    /\ cfg.open_stage_names = <<>>

\* The workload of the current code has been tallied and no write has been
\* made for the code yet.
BeforeWrite == pc \in {"prefs", "read", "confirm", "index", "commit"}

\* The records of the workload query whose assignee is the developer.
RecordsOf(dev) ==
    {k \in DOMAIN open_tasks : open_tasks[k].user_id # <<>> /\ open_tasks[k].user_id[1] = dev}

RECURSIVE SumOf(_)
SumOf(f) ==
    IF DOMAIN f = {} THEN 0
    ELSE LET k == CHOOSE x \in DOMAIN f : TRUE
         IN f[k] + SumOf([j \in DOMAIN f \ {k} |-> f[j]])

\* C17: the records of the workload query are the tickets of the ticket's
\* project whose stage is in the open set and whose assignee is set; the
\* count map has exactly the assignees of these records as keys, maps each
\* to the number of its records, so every value is at least 1 and the
\* values sum to the number of records with an assignee.
C17_WorkloadCounts ==
    /\ WorkloadDone =>
          /\ DOMAIN counts =
                {open_tasks[k].user_id[1] : k \in {j \in DOMAIN open_tasks : open_tasks[j].user_id # <<>>}}
          /\ \A dev \in DOMAIN counts :
                /\ counts[dev] = Cardinality(RecordsOf(dev))
                /\ counts[dev] >= 1
          /\ SumOf(counts) =
                Cardinality({k \in DOMAIN open_tasks : open_tasks[k].user_id # <<>>})
          /\ Range(count_keys) = DOMAIN counts
    /\ BeforeWrite =>
          /\ {open_tasks[k].id : k \in DOMAIN open_tasks} =
                {i \in db_tasks :
                    /\ Tasks[i].project_id # <<>>
                    /\ Tasks[i].project_id[1] = task.project_id[1]
                    /\ Tasks[i].stage_id \in Range(stage_id_list)
                    /\ task_user[i] # <<>>}
          /\ \A k \in DOMAIN open_tasks : open_tasks[k].user_id = task_user[open_tasks[k].id]
          /\ \A j, k \in DOMAIN open_tasks : open_tasks[j].id = open_tasks[k].id => j = k

C17_Witness ==
    /\ pc = "prefs"
    /\ DOMAIN counts = {1, 2}
    /\ counts[1] = 2
    /\ counts[2] = 1
    /\ Len(open_tasks) = 3

\* The timestamp of the record is missing or does not parse.
BadTimestamp(t) == ~Strptime(t.write_date).ok

\* The tally of the records, as the workload loop computes it from an empty
\* start with the cutoff of the configuration.
TallyOf(records) ==
    Tally(records, MinusDays(UtcNow, cfg.recent_days),
          [counts |-> <<>>, keys |-> <<>>, recent |-> <<>>])

\* C18: a workload record with a missing or unparsable timestamp does not
\* stop the ticket (the workload step always moves on to the preferences,
\* with no exit code set); compared with the tally of the other records
\* alone, each such record adds exactly 1 to its assignee's count and the
\* recent map is the same, so it neither sets a flag nor changes what the
\* developer's other records contribute.
C18_BadTimestampTolerated ==
    /\ [](WorkloadDone =>
            LET others == SelectSeq(open_tasks, LAMBDA t : ~BadTimestamp(t))
                bad == {k \in DOMAIN open_tasks : BadTimestamp(open_tasks[k])}
            IN /\ recent = TallyOf(others).recent
               /\ \A dev \in DOMAIN counts :
                     counts[dev] = Get(TallyOf(others).counts, dev, 0)
                                   + Cardinality(bad \cap RecordsOf(dev))
               /\ \A dev \in DOMAIN counts :
                     RecordsOf(dev) \subseteq bad => ~Get(recent, dev, FALSE))
    /\ [][pc = "workload" => pc' = "prefs" /\ exit_code' = exit_code]_vars

C18_Witness ==
    /\ pc = "prefs"
    /\ \E k \in DOMAIN open_tasks :
          /\ open_tasks[k].write_date = "19/01/2026"
          /\ counts[open_tasks[k].user_id[1]] = 2
          /\ exit_code = -1

\* The identifiers of a user record, in the order display name, login, email.
Identifiers(u) == <<u.name, u.login, u.email>>

\* The role the statement gives a record: that of the first identifier
\* among those kept by the filter that is a key of the policy, the sentinel
\* when there is none.
RoleByPrecedence(u, keep(_), sentinel) ==
    LET hits == SelectSeq(Identifiers(u),
                          LAMBDA k : keep(k) /\ k \in DOMAIN cfg.developer_roles)
    IN IF hits = <<>> THEN sentinel ELSE cfg.developer_roles[hits[1]]

AnyIdentifier(k) == TRUE
NonEmptyIdentifier(k) == k # ""

\* C19 (as stated): the role of a candidate is the role mapped to the first
\* of display name, login and email that is a key of the policy, and the
\* label "unknown" when none of them is a key or the policy is empty.
C19_RoleUnknownSentinel ==
    \A k \in DOMAIN candidates :
        candidates[k].role = RoleByPrecedence(cand_records[k], AnyIdentifier, "unknown")

\* C19 (amended): the role of a candidate is the role mapped to the first
\* non-empty one of display name, login and email that is a key of the
\* policy, and the label "-" when none of them is or the policy is empty;
\* a role is produced for every record.
C19_RoleDashSentinel ==
    /\ \A k \in DOMAIN candidates :
          candidates[k].role = RoleByPrecedence(cand_records[k], NonEmptyIdentifier, "-")
    /\ pc = "role_done" => Len(candidates) = Len(cand_records)

C19_Witness ==
    /\ pc = "role_done"
    /\ Len(candidates) = 2
    /\ candidates[1].role = "-"
    /\ candidates[1].login = ""
    /\ DOMAIN cfg.developer_roles = RoleKeys
    /\ candidates[2].login = "ann"
    /\ cfg.developer_roles["Ann"] # cfg.developer_roles["ann"]
    /\ candidates[2].role = cfg.developer_roles["Ann"]

\* The writes of the run, so far, that succeeded on the ticket.
OkWritesOn(i) ==
    SelectSeq(writes, LAMBDA w : w.ok /\ i \in Range(w.ids) /\ "user_id" \in DOMAIN w.values)

\* The assignee of the ticket after the writes committed so far: that of the
\* last successful write on it, the one before the run when there is none.
CommittedAssignee(i) ==
    LET ws == OkWritesOn(i)
    IN IF ws = <<>> THEN InitialAssignee[i]
       ELSE <<ws[Len(ws)].values.user_id, Users[ws[Len(ws)].values.user_id].name>>

\* C20: while a code is being ranked, its open stage list is the answer of
\* the stage queries, its candidate records are records of the gateway, and
\* its count map counts, for every developer, the open tickets of the
\* project as assigned by the writes committed for the earlier codes of the
\* run; the codes before the current one all have their outcome, in the
\* order of the codes, and every write of the run belongs to one of them.
C20_RecomputedPerCode ==
    /\ BeforeWrite =>
          /\ stage_id_list \in {SearchStagesByName(cfg.open_stage_names), SearchStagesUnfolded}
          /\ \A dev \in DOMAIN Users :
                Get(counts, dev, 0) =
                    Cardinality({i \in db_tasks :
                        /\ Tasks[i].project_id # <<>>
                        /\ Tasks[i].project_id[1] = task.project_id[1]
                        /\ Tasks[i].stage_id \in Range(stage_id_list)
                        /\ CommittedAssignee(i) # <<>>
                        /\ CommittedAssignee(i)[1] = dev})
          /\ DOMAIN counts \subseteq DOMAIN Users
          /\ Range(cand_records) \subseteq Range(Users)
    /\ InLoop =>
          /\ Len(outcomes) = idx - 1
          /\ idx - 1 <= Len(codes)
          /\ \A k \in DOMAIN outcomes : outcomes[k].code = codes[k]
          /\ pc \notin {"loop", "done"} => idx <= Len(codes)
          /\ \A j \in DOMAIN writes :
                \E k \in DOMAIN outcomes :
                    /\ writes[j].code = codes[k]
                    /\ outcomes[k].kind \in {"WRITE_OK", "WRITE_FAILED"}

C20_Witness ==
    /\ pc = "prefs"
    /\ idx = 2
    /\ Len(writes) = 1
    /\ writes[1].ok
    /\ writes[1].ids = <<1>>
    /\ InitialAssignee[1] = <<>>
    /\ \E k \in DOMAIN open_tasks : open_tasks[k].id = 1
    /\ counts[writes[1].values.user_id] =
          1 + Cardinality({i \in db_tasks :
                  /\ Tasks[i].project_id # <<>>
                  /\ Tasks[i].project_id[1] = task.project_id[1]
                  /\ Tasks[i].stage_id \in Range(stage_id_list)
                  /\ InitialAssignee[i] # <<>>
                  /\ InitialAssignee[i][1] = writes[1].values.user_id})

====
